---- MODULE Spec2Model ----
(***************************************************************************)
(* Cart / checkout flow of the storefront (src/app.py).                    *)
(*                                                                         *)
(* The relational store is three variables: the produto table, the         *)
(* carrinho table and the two serial id counters.  A request handler that  *)
(* issues several database statements is a sequence of steps of one        *)
(* request slot, so that statements of concurrent requests interleave the  *)
(* way the threaded server lets them; a handler that flushes once is one   *)
(* step.  Spec is the interleaved system, SeqSpec the same handlers run    *)
(* one request at a time.                                                  *)
(***************************************************************************)
EXTENDS Integers, Sequences, FiniteSets, TLC

\* ------------------------------------------------------------------ bounds
MaxUsuarios == 2
MaxProdutos == 1
MaxEstoque == 2
MaxPreco == 1
MaxLinhas == 2
MaxReqs == 2

\* ------------------------------------------------------- program constants
\* a NULL column value / the None of an absent row
NULL == 0
\* 'usuario_id' not in session
SemSessao == 0
\* session['usuario_id'] != 1 : the only user allowed to delete products
ADMIN_ID == 1
\* the width of the :04d format of the order identifier
LarguraPedido == 4

Usuarios == 1..MaxUsuarios
Sessoes == {SemSessao} \cup Usuarios
ProdutoIds == 1..MaxProdutos
ItemIds == 1..MaxLinhas
Reqs == 1..MaxReqs
\* request.form['quantidade'] after int(): negative, zero, and the amounts up
\* to one more than any stock
Quantidades == (-1)..(MaxEstoque + 1)
\* request.form['preco'] / request.form['estoque'] of the admin forms
PrecosForm == 0..MaxPreco
EstoquesForm == (-1)..MaxEstoque

VARIABLES
    produtos,     \* table produto: id -> [preco, estoque]
    proxProduto,  \* serial of produto.id
    carrinho,     \* table carrinho: id -> [usuario_id, produto_id, quantidade]
    proxItem,     \* serial of carrinho.id
    req           \* request slot -> the handler's locals and its last response

vars == <<produtos, proxProduto, carrinho, proxItem, req>>
db == <<produtos, proxProduto, carrinho, proxItem>>

\* ---------------------------------------------------------------- helpers
SemPedido == [prefixo |-> "", digitos |-> <<>>]

\* A slot with no request in flight; res is the response last sent from it.
Fim(res) ==
    [pc |-> "fim", usuario |-> SemSessao, produto |-> NULL, quantidade |-> 0,
     estoque |-> 0, item |-> NULL, nova |-> 0, itens |-> {}, total |-> 0,
     pedido |-> SemPedido, envios |-> <<>>, res |-> res]

Livre(r) == req[r].pc = "fim"

\* Carrinho.query.filter_by(usuario_id=u): the ids of the user's lines
LinhasDe(c, u) == {i \in DOMAIN c : c[i].usuario_id = u}

\* Carrinho.query.filter_by(usuario_id=u, produto_id=p)
LinhasDoPar(c, u, p) ==
    {i \in DOMAIN c : c[i].usuario_id = u /\ c[i].produto_id = p}

\* the loaded Carrinho objects with their lazily loaded produto
Itens(c, ps, u) ==
    {[id |-> i, produto_id |-> c[i].produto_id, quantidade |-> c[i].quantidade,
      preco |-> ps[c[i].produto_id].preco] : i \in LinhasDe(c, u)}

\* item.produto is None for some line of the user
TemOrfa(c, u) == \E i \in LinhasDe(c, u) : c[i].produto_id = NULL

RECURSIVE Soma(_)
\* sum(item.produto.preco * item.quantidade for item in itens)
Soma(S) ==
    IF S = {} THEN 0
    ELSE LET x == CHOOSE y \in S : TRUE
         IN  x.preco * x.quantidade + Soma(S \ {x})

\* MaxId with count(Carrinho.id) in the place of max(Carrinho.id)
ContarIds(c) == IF DOMAIN c = {} THEN NULL ELSE Cardinality(DOMAIN c)

\* db.func.max(Carrinho.id) : NULL over an empty table
MaxId(c) ==
    IF DOMAIN c = {} THEN NULL
    ELSE CHOOSE m \in DOMAIN c : \A i \in DOMAIN c : i <= m

RECURSIVE Digitos(_)
\* the decimal digits of n, most significant first
Digitos(n) == IF n < 10 THEN <<n>> ELSE Digitos(n \div 10) \o <<n % 10>>

RECURSIVE ZeroFill(_, _)
ZeroFill(s, w) == IF Len(s) >= w THEN s ELSE ZeroFill(<<0>> \o s, w)

\* f"PED{n:04d}"
FormatarPedido(n) ==
    [prefixo |-> "PED", digitos |-> ZeroFill(Digitos(n), LarguraPedido)]

Sem(f, S) == [x \in DOMAIN f \ S |-> f[x]]

\* ------------------------------------------------------------------- Init
Init ==
    /\ produtos = [p \in {} |-> [preco |-> 1, estoque |-> 0]]
    /\ proxProduto = 1
    /\ carrinho = [i \in {} |-> [usuario_id |-> 1, produto_id |-> 1, quantidade |-> 1]]
    /\ proxItem = 1
    /\ req = [r \in Reqs |-> Fim("nenhuma")]

\* ------------------------------------------------------- adicionar_carrinho
\* AdicionarInicio without the check of the stock against the quantity
AdicionarInicioSemEstoque(r, u, p, q) ==
    /\ Livre(r)
    /\ proxItem + Cardinality({s \in Reqs : req[s].pc \in {"ad_item", "ad_commit"}})
         <= MaxLinhas
    /\ req' = [req EXCEPT ![r] =
         IF u = SemSessao THEN Fim("login")
         ELSE IF p \notin DOMAIN produtos THEN Fim("erro")
         ELSE IF q <= 0 THEN Fim("invalida")
         ELSE [Fim("nenhuma") EXCEPT !.pc = "ad_item", !.usuario = u,
                                     !.produto = p, !.quantidade = q,
                                     !.estoque = produtos[p].estoque]]
    /\ UNCHANGED db

\* Lines 144-164: session gate, Produto.query.get_or_404, int(quantidade) and
\* the two checks made before the cart is read.
AdicionarInicio(r, u, p, q) ==
    /\ Livre(r)
    /\ proxItem + Cardinality({s \in Reqs : req[s].pc \in {"ad_item", "ad_commit"}})
         <= MaxLinhas
    /\ req' = [req EXCEPT ![r] =
         IF u = SemSessao THEN Fim("login")
         ELSE IF p \notin DOMAIN produtos THEN Fim("erro")
         ELSE IF q <= 0 THEN Fim("invalida")
         ELSE IF produtos[p].estoque < q THEN Fim("indisponivel")
         ELSE [Fim("nenhuma") EXCEPT !.pc = "ad_item", !.usuario = u,
                                     !.produto = p, !.quantidade = q,
                                     !.estoque = produtos[p].estoque]]
    /\ UNCHANGED db

\* AdicionarBuscarItem checking the stock against the increment alone
AdicionarBuscarItemSoIncremento(r) ==
    /\ req[r].pc = "ad_item"
    /\ LET s == req[r]
           achadas == LinhasDoPar(carrinho, s.usuario, s.produto)
       IN  IF achadas = {}
           THEN req' = [req EXCEPT ![r].pc = "ad_commit", ![r].item = NULL]
           ELSE \E i \in achadas :
                  LET nova_quantidade == carrinho[i].quantidade + s.quantidade
                  IN  req' = [req EXCEPT ![r] =
                        IF s.estoque < s.quantidade
                        THEN Fim("insuficiente")
                        ELSE [s EXCEPT !.pc = "ad_commit", !.item = i,
                                       !.nova = nova_quantidade]]
    /\ UNCHANGED db

\* Lines 166-191: look the line up and decide between update and insert.
AdicionarBuscarItem(r) ==
    /\ req[r].pc = "ad_item"
    /\ LET s == req[r]
           achadas == LinhasDoPar(carrinho, s.usuario, s.produto)
       IN  IF achadas = {}
           THEN req' = [req EXCEPT ![r].pc = "ad_commit", ![r].item = NULL]
           ELSE \E i \in achadas :
                  LET nova_quantidade == carrinho[i].quantidade + s.quantidade
                  IN  req' = [req EXCEPT ![r] =
                        IF s.estoque < nova_quantidade
                        THEN Fim("insuficiente")
                        ELSE [s EXCEPT !.pc = "ad_commit", !.item = i,
                                       !.nova = nova_quantidade]]
    /\ UNCHANGED db

\* AdicionarCommit taking the added quantity out of the product's stock
AdicionarCommitBaixaEstoque(r) ==
    /\ req[r].pc = "ad_commit"
    /\ LET s == req[r]
       IN  IF s.item = NULL
           THEN /\ proxItem' = proxItem + 1
                /\ IF s.produto \in DOMAIN produtos
                   THEN /\ carrinho' = (proxItem :>
                               [usuario_id |-> s.usuario, produto_id |-> s.produto,
                                quantidade |-> s.quantidade]) @@ carrinho
                        /\ produtos' = [produtos EXCEPT
                               ![s.produto].estoque = @ - s.quantidade]
                        /\ req' = [req EXCEPT ![r] = Fim("adicionado")]
                   ELSE /\ carrinho' = carrinho
                        /\ produtos' = produtos
                        /\ req' = [req EXCEPT ![r] = Fim("erro")]
           ELSE /\ proxItem' = proxItem
                /\ produtos' = produtos
                /\ IF s.item \in DOMAIN carrinho
                   THEN /\ carrinho' = [carrinho EXCEPT ![s.item].quantidade = s.nova]
                        /\ req' = [req EXCEPT ![r] = Fim("adicionado")]
                   ELSE /\ carrinho' = carrinho
                        /\ req' = [req EXCEPT ![r] = Fim("erro")]
    /\ UNCHANGED proxProduto

\* Lines 193-199: db.session.commit() flushes the INSERT or the UPDATE; a
\* foreign-key violation or an UPDATE that matches no row raises, and the
\* handler rolls back.  The serial value an INSERT drew is not given back.
AdicionarCommit(r) ==
    /\ req[r].pc = "ad_commit"
    /\ LET s == req[r]
       IN  IF s.item = NULL
           THEN /\ proxItem' = proxItem + 1
                /\ IF s.produto \in DOMAIN produtos
                   THEN /\ carrinho' = (proxItem :>
                               [usuario_id |-> s.usuario, produto_id |-> s.produto,
                                quantidade |-> s.quantidade]) @@ carrinho
                        /\ req' = [req EXCEPT ![r] = Fim("adicionado")]
                   ELSE /\ carrinho' = carrinho
                        /\ req' = [req EXCEPT ![r] = Fim("erro")]
           ELSE /\ proxItem' = proxItem
                /\ IF s.item \in DOMAIN carrinho
                   THEN /\ carrinho' = [carrinho EXCEPT ![s.item].quantidade = s.nova]
                        /\ req' = [req EXCEPT ![r] = Fim("adicionado")]
                   ELSE /\ carrinho' = carrinho
                        /\ req' = [req EXCEPT ![r] = Fim("erro")]
    /\ UNCHANGED <<produtos, proxProduto>>

\* ----------------------------------------------------------------- carrinho
\* Lines 205-211: the listing and its total; item.produto.preco raises on a
\* line whose produto is None.
ListarCarrinho(r, u) ==
    /\ Livre(r)
    /\ req' = [req EXCEPT ![r] =
         IF u = SemSessao THEN Fim("login")
         ELSE IF TemOrfa(carrinho, u) THEN Fim("500")
         ELSE [Fim("carrinho") EXCEPT !.total = Soma(Itens(carrinho, produtos, u))]]
    /\ UNCHANGED db

\* ------------------------------------------------------------- remover_item
\* RemoverItem refusing a line that is not the session user's
RemoverItemSoDono(r, u, i) ==
    /\ Livre(r)
    /\ IF u = SemSessao
       THEN /\ req' = [req EXCEPT ![r] = Fim("login")]
            /\ carrinho' = carrinho
       ELSE IF i \notin LinhasDe(carrinho, u)
       THEN /\ req' = [req EXCEPT ![r] = Fim("404")]
            /\ carrinho' = carrinho
       ELSE /\ req' = [req EXCEPT ![r] = Fim("removido")]
            /\ carrinho' = Sem(carrinho, {i})
    /\ UNCHANGED <<produtos, proxProduto, proxItem>>

\* Lines 214-218 behind the before_request gate of lines 495-497.
RemoverItem(r, u, i) ==
    /\ Livre(r)
    /\ IF u = SemSessao
       THEN /\ req' = [req EXCEPT ![r] = Fim("login")]
            /\ carrinho' = carrinho
       ELSE IF i \notin DOMAIN carrinho
       THEN /\ req' = [req EXCEPT ![r] = Fim("404")]
            /\ carrinho' = carrinho
       ELSE /\ req' = [req EXCEPT ![r] = Fim("removido")]
            /\ carrinho' = Sem(carrinho, {i})
    /\ UNCHANGED <<produtos, proxProduto, proxItem>>

\* --------------------------------------------------------- finalizar_compra
\* Lines 223-232: read the user's lines, the total and the order identifier.
FinalizarLer(r, u) ==
    /\ Livre(r)
    /\ req' = [req EXCEPT ![r] =
         IF u = SemSessao THEN Fim("login")
         ELSE IF TemOrfa(carrinho, u) THEN Fim("500")
         ELSE IF MaxId(carrinho) = NULL THEN Fim("500")
         ELSE [Fim("nenhuma") EXCEPT
                 !.pc = "fin_notificar", !.usuario = u,
                 !.itens = Itens(carrinho, produtos, u),
                 !.total = Soma(Itens(carrinho, produtos, u)),
                 !.pedido = FormatarPedido(MaxId(carrinho) + 1)]]
    /\ UNCHANGED db

\* Lines 235-240 and 40-85: one send; the transport's failure is caught and
\* the boolean result is dropped by the caller.
FinalizarNotificar(r) ==
    /\ req[r].pc = "fin_notificar"
    /\ \E enviado \in BOOLEAN :
         req' = [req EXCEPT ![r].pc = "fin_limpar",
                            ![r].envios = Append(@, enviado)]
    /\ UNCHANGED db

\* FinalizarLimpar deleting the lines it read instead of the user's lines
FinalizarLimparSoLidos(r) ==
    /\ req[r].pc = "fin_limpar"
    /\ carrinho' = Sem(carrinho, {x.id : x \in req[r].itens})
    /\ req' = [req EXCEPT ![r] = Fim("finalizada")]
    /\ UNCHANGED <<produtos, proxProduto, proxItem>>

\* Lines 243-247: bulk delete by usuario_id, commit.
FinalizarLimpar(r) ==
    /\ req[r].pc = "fin_limpar"
    /\ carrinho' = Sem(carrinho, LinhasDe(carrinho, req[r].usuario))
    /\ req' = [req EXCEPT ![r] = Fim("finalizada")]
    /\ UNCHANGED <<produtos, proxProduto, proxItem>>

\* ------------------------------------------------------------ admin: produto
\* Lines 323-389: a product is created when price and stock validate.
AdicionarProduto(u, preco, estoque) ==
    /\ u # SemSessao
    /\ proxProduto <= MaxProdutos
    /\ IF preco <= 0 \/ estoque < 0
       THEN UNCHANGED <<produtos, proxProduto>>
       ELSE /\ produtos' = (proxProduto :> [preco |-> preco, estoque |-> estoque])
                              @@ produtos
            /\ proxProduto' = proxProduto + 1
    /\ UNCHANGED <<carrinho, proxItem, req>>

\* Lines 392-439: the edit is committed only when price and stock validate.
EditarProduto(u, p, preco, estoque) ==
    /\ u # SemSessao
    /\ p \in DOMAIN produtos
    /\ IF preco <= 0 \/ estoque < 0
       THEN produtos' = produtos
       ELSE produtos' = [produtos EXCEPT ![p] = [preco |-> preco, estoque |-> estoque]]
    /\ UNCHANGED <<proxProduto, carrinho, proxItem, req>>

\* Lines 442-463 with the relationship of line 128: deleting a Produto whose
\* backref has no delete cascade sets produto_id of its lines to NULL.
ExcluirProduto(u, p) ==
    /\ u = ADMIN_ID
    /\ p \in DOMAIN produtos
    /\ produtos' = Sem(produtos, {p})
    /\ carrinho' = [i \in DOMAIN carrinho |->
                      IF carrinho[i].produto_id = p
                      THEN [carrinho[i] EXCEPT !.produto_id = NULL]
                      ELSE carrinho[i]]
    /\ UNCHANGED <<proxProduto, proxItem, req>>

\* ------------------------------------------------------------ specifications
Iniciar ==
    \/ \E r \in Reqs, u \in Sessoes, p \in ProdutoIds, q \in Quantidades :
         AdicionarInicio(r, u, p, q)
    \/ \E r \in Reqs, u \in Sessoes : FinalizarLer(r, u)
    \/ \E r \in Reqs, u \in Sessoes, i \in ItemIds : RemoverItem(r, u, i)
    \/ \E r \in Reqs, u \in Sessoes : ListarCarrinho(r, u)
    \/ \E u \in Sessoes, preco \in PrecosForm, estoque \in EstoquesForm :
         AdicionarProduto(u, preco, estoque)
    \/ \E u \in Sessoes, p \in ProdutoIds, preco \in PrecosForm,
          estoque \in EstoquesForm : EditarProduto(u, p, preco, estoque)
    \/ \E u \in Sessoes, p \in ProdutoIds : ExcluirProduto(u, p)

Continuar ==
    \/ \E r \in Reqs : AdicionarBuscarItem(r)
    \/ \E r \in Reqs : AdicionarCommit(r)
    \/ \E r \in Reqs : FinalizarNotificar(r)
    \/ \E r \in Reqs : FinalizarLimpar(r)

Next == Iniciar \/ Continuar

Spec == Init /\ [][Next]_vars

\* One request at a time: a handler starts only when none is in flight.
NenhumaEmCurso == \A r \in Reqs : Livre(r)

NextSeq ==
    \/ NenhumaEmCurso /\ \E r \in Reqs, u \in Sessoes, p \in ProdutoIds,
                            q \in Quantidades : AdicionarInicio(r, u, p, q)
    \/ NenhumaEmCurso /\ \E r \in Reqs, u \in Sessoes : FinalizarLer(r, u)
    \/ NenhumaEmCurso /\ \E r \in Reqs, u \in Sessoes, i \in ItemIds :
                            RemoverItem(r, u, i)
    \/ NenhumaEmCurso /\ \E r \in Reqs, u \in Sessoes : ListarCarrinho(r, u)
    \/ NenhumaEmCurso /\ \E u \in Sessoes, preco \in PrecosForm,
                            estoque \in EstoquesForm :
                            AdicionarProduto(u, preco, estoque)
    \/ NenhumaEmCurso /\ \E u \in Sessoes, p \in ProdutoIds, preco \in PrecosForm,
                            estoque \in EstoquesForm :
                            EditarProduto(u, p, preco, estoque)
    \/ NenhumaEmCurso /\ \E u \in Sessoes, p \in ProdutoIds : ExcluirProduto(u, p)
    \/ Continuar

SeqSpec == Init /\ [][NextSeq]_vars

\* ------------------------------------------------------------------ claims
\* what a listing or a notification shows of a line: its id and its quantity
IdQtd(S) == {[id |-> x.id, quantidade |-> x.quantidade] : x \in S}

LinhasIdQtd(c, L) == {[id |-> i, quantidade |-> c[i].quantidade] : i \in L}

\* the outcome the contract gives AddToCart(u, p, q) in the current state
C1Sucede(u, p, q) ==
    /\ p \in DOMAIN produtos
    /\ q > 0
    /\ LET L == LinhasDoPar(carrinho, u, p)
       IN  IF L = {} THEN q <= produtos[p].estoque
           ELSE \A i \in L : carrinho[i].quantidade + q <= produtos[p].estoque

C1Efeito(u, p, q) ==
    LET L == LinhasDoPar(carrinho, u, p)
    IN  IF L = {}
        THEN \E j \in ItemIds \ DOMAIN carrinho :
               carrinho' = (j :> [usuario_id |-> u, produto_id |-> p,
                                  quantidade |-> q]) @@ carrinho
        ELSE \E i \in L :
               carrinho' = [carrinho EXCEPT ![i].quantidade = @ + q]

C1Falhas == {"erro", "invalida", "indisponivel", "insuficiente"}

C1Resultado(r, u, p, q) ==
    req'[r].pc = "fim" =>
        IF C1Sucede(u, p, q)
        THEN req'[r].res = "adicionado" /\ C1Efeito(u, p, q)
        ELSE req'[r].res \in C1Falhas /\ carrinho' = carrinho

\* C1: with requests served one at a time, AddToCart(u, p, q) with no line
\* for (u, p) succeeds and creates a line of quantity q iff 0 < q <= stock;
\* with a line of quantity n it succeeds and makes it n + q iff q > 0 and
\* n + q <= stock; every failure leaves the cart lines as they were.
C1_AddToCartContract ==
    [][\A r \in Reqs :
         /\ \A u \in Usuarios, p \in ProdutoIds, q \in Quantidades :
              AdicionarInicio(r, u, p, q) => C1Resultado(r, u, p, q)
         /\ AdicionarBuscarItem(r) \/ AdicionarCommit(r) =>
              C1Resultado(r, req[r].usuario, req[r].produto, req[r].quantidade)
      ]_vars

\* a line filled up to the stock, and a further add refused for it
C1_Witness ==
    \E r \in Reqs, i \in DOMAIN carrinho :
        /\ req[r].res = "insuficiente"
        /\ carrinho[i].produto_id \in DOMAIN produtos
        /\ carrinho[i].quantidade = produtos[carrinho[i].produto_id].estoque
        /\ carrinho[i].quantidade = MaxEstoque

\* C2: there is at most one cart line per (user, product) pair.
C2_UmaLinhaPorPar ==
    \A i, j \in DOMAIN carrinho :
        (/\ carrinho[i].usuario_id = carrinho[j].usuario_id
         /\ carrinho[i].produto_id = carrinho[j].produto_id
         /\ carrinho[i].produto_id # NULL) => i = j

\* C3: a checkout by a user who holds at least one line goes through to the
\* clearing step, which leaves that user no line and every other user's
\* lines as they were, whatever the notification's outcome.
C3_CheckoutLimpa ==
    [][\A r \in Reqs :
         /\ \A u \in Usuarios :
              FinalizarLer(r, u) /\ LinhasDe(carrinho, u) # {} =>
                  req'[r].pc = "fin_notificar"
         /\ FinalizarLimpar(r) =>
              /\ LinhasDe(carrinho', req[r].usuario) = {}
              /\ \A i \in DOMAIN carrinho :
                   carrinho[i].usuario_id # req[r].usuario =>
                       i \in DOMAIN carrinho' /\ carrinho'[i] = carrinho[i]
      ]_vars

\* ids of the cart table are never given out twice
C4IdsNovos ==
    /\ \A i \in DOMAIN carrinho : i < proxItem
    /\ \A i \in DOMAIN carrinho' \ DOMAIN carrinho : i >= proxItem

\* C4: RemoveLine on an id with no line answers NotFound and changes no
\* line; on an existing id it deletes that line, whoever owns it, and no
\* other; the id never comes back, so a second RemoveLine answers NotFound.
C4_RemoveLine ==
    [][/\ C4IdsNovos
       /\ \A r \in Reqs, u \in Usuarios, i \in ItemIds :
            RemoverItem(r, u, i) =>
              IF i \notin DOMAIN carrinho
              THEN req'[r].res = "404" /\ carrinho' = carrinho
              ELSE /\ req'[r].res = "removido"
                   /\ DOMAIN carrinho' = DOMAIN carrinho \ {i}
                   /\ \A j \in DOMAIN carrinho' : carrinho'[j] = carrinho[j]
      ]_vars

\* one request removed a line and another was answered NotFound
C4_Witness ==
    \E r1, r2 \in Reqs :
        /\ req[r1].res = "removido"
        /\ req[r2].res = "404"
        /\ proxItem > 1

\* C5: a checkout by a user with no line is confirmed with total 0 and an
\* empty item list, in every state of the cart table, and clears nothing.
C5_CheckoutVazio ==
    [][\A r \in Reqs :
         /\ \A u \in Usuarios :
              FinalizarLer(r, u) /\ LinhasDe(carrinho, u) = {} =>
                  /\ req'[r].pc = "fin_notificar"
                  /\ req'[r].total = 0
                  /\ req'[r].itens = {}
         /\ FinalizarLimpar(r) /\ req[r].itens = {}
              /\ LinhasDe(carrinho, req[r].usuario) = {} => carrinho' = carrinho
      ]_vars

\* C6: every cart line references a product of the catalog.
C6_ProdutoExiste ==
    \A i \in DOMAIN carrinho : carrinho[i].produto_id \in DOMAIN produtos

OperacaoCarrinho ==
    \E r \in Reqs :
        \/ \E u \in Sessoes, p \in ProdutoIds, q \in Quantidades :
             AdicionarInicio(r, u, p, q)
        \/ AdicionarBuscarItem(r)
        \/ AdicionarCommit(r)
        \/ \E u \in Sessoes : ListarCarrinho(r, u)
        \/ \E u \in Sessoes, i \in ItemIds : RemoverItem(r, u, i)
        \/ \E u \in Sessoes : FinalizarLer(r, u)
        \/ FinalizarNotificar(r)
        \/ FinalizarLimpar(r)

\* C7: no step of AddToCart, ListCart, RemoveLine or Checkout changes the
\* product table, so no product's stock.
C7_EstoqueIntacto == [][OperacaoCarrinho => produtos' = produtos]_vars

\* an add and a checkout have completed and the stock is still at its top
C7_Witness ==
    \E r1, r2 \in Reqs, p \in DOMAIN produtos :
        /\ req[r1].res = "adicionado"
        /\ req[r2].res = "finalizada"
        /\ produtos[p].estoque = MaxEstoque

\* C8: every AddToCart that is about to write has passed the stock check
\* against the stock value it read (and against it alone).
C8_PassaNoEstoqueLido ==
    \A r \in Reqs :
        req[r].pc = "ad_commit" =>
            /\ 0 < req[r].quantidade
            /\ req[r].quantidade <= req[r].estoque
            /\ req[r].item # NULL => req[r].nova <= req[r].estoque

\* two adds of one user for one product both succeeded, each line within the
\* stock, and together they hold more than the stock
C8_Witness ==
    \E u \in Usuarios, p \in DOMAIN produtos :
        /\ \A r \in Reqs : req[r].res = "adicionado"
        /\ \E i, j \in LinhasDoPar(carrinho, u, p) :
             /\ i # j
             /\ carrinho[i].quantidade <= produtos[p].estoque
             /\ carrinho[j].quantidade <= produtos[p].estoque
             /\ carrinho[i].quantidade + carrinho[j].quantidade > produtos[p].estoque

RECURSIVE Valor(_)
\* the number a sequence of decimal digits writes
Valor(d) == IF d = <<>> THEN 0 ELSE 10 * Valor(SubSeq(d, 1, Len(d) - 1)) + d[Len(d)]

EmCheckout(r) == req[r].pc \in {"fin_notificar", "fin_limpar"}

\* C9: the order identifier a checkout produces is PED followed by the
\* zero-padded decimal of (the greatest id among all cart lines) + 1.
C9_PedidoMaxMaisUm ==
    [][\A r \in Reqs, u \in Usuarios :
         FinalizarLer(r, u) /\ req'[r].pc = "fin_notificar" =>
           LET ped == req'[r].pedido
               n == Valor(ped.digitos)
           IN  /\ ped.prefixo = "PED"
               /\ Len(ped.digitos) >= LarguraPedido
               /\ Len(ped.digitos) > LarguraPedido => ped.digitos[1] # 0
               /\ \A k \in 1..Len(ped.digitos) : ped.digitos[k] \in 0..9
               /\ n - 1 \in DOMAIN carrinho
               /\ \A i \in DOMAIN carrinho : i <= n - 1
      ]_vars

\* two checkouts of different users hold the same order identifier
C9_Witness ==
    \E r1, r2 \in Reqs :
        /\ r1 # r2
        /\ EmCheckout(r1) /\ EmCheckout(r2)
        /\ req[r1].usuario # req[r2].usuario
        /\ req[r1].pedido = req[r2].pedido

C10Ordem(r) ==
    /\ FinalizarNotificar(r) => req[r].envios = <<>> /\ Len(req'[r].envios) = 1
    /\ FinalizarLimpar(r) => Len(req[r].envios) = 1

C10Removidas(r) == DOMAIN carrinho \ DOMAIN carrinho'

\* C10 as claimed: a checkout reads, notifies exactly once, then clears, and
\* the lines the clear deletes are the lines (with their quantities) that
\* went into the notification, whatever interleaves.
C10_LimpaONotificado ==
    [][\A r \in Reqs :
         /\ C10Ordem(r)
         /\ FinalizarLimpar(r) =>
              LinhasIdQtd(carrinho, C10Removidas(r)) = IdQtd(req[r].itens)
      ]_vars

\* C10 amended: a checkout reads, notifies exactly once, then clears; the
\* clear deletes every line its user holds at that moment, and these are
\* the notified lines when the user's lines did not change in between.
C10_LimpaODoUsuario ==
    [][\A r \in Reqs :
         /\ C10Ordem(r)
         /\ FinalizarLimpar(r) =>
              /\ C10Removidas(r) = LinhasDe(carrinho, req[r].usuario)
              /\ \A i \in DOMAIN carrinho' : carrinho'[i] = carrinho[i]
              /\ LinhasIdQtd(carrinho, LinhasDe(carrinho, req[r].usuario))
                     = IdQtd(req[r].itens)
                   => LinhasIdQtd(carrinho, C10Removidas(r)) = IdQtd(req[r].itens)
      ]_vars

\* a checkout has notified and is about to clear lines it did not notify
C10_Witness ==
    \E r \in Reqs :
        /\ req[r].pc = "fin_limpar"
        /\ Len(req[r].envios) = 1
        /\ LinhasIdQtd(carrinho, LinhasDe(carrinho, req[r].usuario))
               # IdQtd(req[r].itens)

====
